---- MODULE Spec2Model ----
(***************************************************************************)
(* Model of wayk_proto/src/message/now_messages/surface.rs: the surface    *)
(* channel messages (NOW_SURFACE_MSG), their constructors, the derived     *)
(* field-by-field codecs and the NowSurfaceMsg envelope dispatch.          *)
(*                                                                         *)
(* A struct declaration is modelled by its field list (name, wire type,    *)
(* ignored or not), in declaration order; #[derive(Encode, Decode)] is     *)
(* modelled by EncodeStruct / DecodeStruct walking that list.              *)
(***************************************************************************)
EXTENDS Integers, Sequences, FiniteSets, TLC

(* ------------------------------------------------------------------ *)
(* Bounds of the exploration                                           *)
(* ------------------------------------------------------------------ *)
MaxSmallLen == 2       \* lists of 0..MaxSmallLen elements are enumerated in full
MaxOver == 1           \* long lists have U8Max .. U8Max + MaxOver elements
MaxTrunc == 4          \* the transport drops at most this many trailing bytes
MaxCorruptIdx == 17    \* the transport alters one byte among the first MaxCorruptIdx
MaxTamperLen == 64     \* the transport alters only buffers of at most this many bytes

(* ------------------------------------------------------------------ *)
(* Program constants                                                   *)
(* ------------------------------------------------------------------ *)
U8Max == 255
PRIMARY == 1
MIRRORED == 2
DISABLED == 4
SELECTED == 8
FAILURE == 128
NowSurfaceDef_REQUIRED_SIZE == 16

(* ------------------------------------------------------------------ *)
(* Results and the error chain                                         *)
(* ------------------------------------------------------------------ *)
NoValue == -1
NoVal == [none |-> TRUE]

\* one link of the error chain: kind, entity being processed, description,
\* and the offending value when the kind carries one
ProtoError(kind, entity, desc, value) ==
    [kind |-> kind, entity |-> entity, desc |-> desc, value |-> value]

\* decode results: value and cursor position after the call
Ok(v, p) == [ok |-> TRUE, val |-> v, pos |-> p, err |-> <<>>]
Err(p, chain) == [ok |-> FALSE, val |-> NoVal, pos |-> p, err |-> chain]

\* encode results: the bytes written to the writer (also on failure)
Written(bytes) == [ok |-> TRUE, bytes |-> bytes, err |-> <<>>]
WriteErr(bytes, chain) == [ok |-> FALSE, bytes |-> bytes, err |-> chain]

\* ProtoErrorResultExt: .chain(kind(entity)).or_desc(desc) on a Result
chain(kind, entity, desc, res) ==
    IF res.ok THEN res
    ELSE [res EXCEPT !.err = <<ProtoError(kind, entity, desc, NoValue)>> \o res.err]

(* ------------------------------------------------------------------ *)
(* Bit flags                                                           *)
(* ------------------------------------------------------------------ *)
RECURSIVE BitOr(_, _)
BitOr(a, b) ==
    IF a = 0 THEN b
    ELSE IF b = 0 THEN a
    ELSE (IF (a % 2 = 1) \/ (b % 2 = 1) THEN 1 ELSE 0) + 2 * BitOr(a \div 2, b \div 2)

\* the default without PRIMARY
SurfacePropertiesFlags_default_selected_only == SELECTED

SurfacePropertiesFlags_default == BitOr(SELECTED, PRIMARY)

(* ------------------------------------------------------------------ *)
(* Numeric enums                                                       *)
(* ------------------------------------------------------------------ *)
\* the discriminants left to start at zero
SurfaceMessageType_zero_based ==
    [ListReq |-> 0, ListRsp |-> 1, MapReq |-> 2, MapRsp |-> 3,
     SelectReq |-> 4, SelectRsp |-> 5]

SurfaceMessageType ==
    [ListReq |-> 1, ListRsp |-> 2, MapReq |-> 3, MapRsp |-> 4,
     SelectReq |-> 5, SelectRsp |-> 6]

SurfaceOrientation ==
    [Landscape |-> 0, Portrait |-> 90, LandscapeFlipped |-> 180,
     PortraitFlipped |-> 270]

EnumTable(ty) ==
    IF ty = "SurfaceMessageType" THEN SurfaceMessageType ELSE SurfaceOrientation

IsEnum(ty) == ty \in {"SurfaceMessageType", "SurfaceOrientation"}

\* num::FromPrimitive: Some(variant) for a declared code, None otherwise
None == "None"
FromPrimitive(ty, code) ==
    LET t == EnumTable(ty) IN
    IF \E n \in DOMAIN t : t[n] = code
    THEN CHOOSE n \in DOMAIN t : t[n] = code
    ELSE None

(* ------------------------------------------------------------------ *)
(* Struct declarations: fields in declaration order                    *)
(* ------------------------------------------------------------------ *)
Field(name, ty) == [name |-> name, ty |-> ty, ignore |-> FALSE]
\* #[decode_ignore] #[encode_ignore]
Ignored(name, ty) == [name |-> name, ty |-> ty, ignore |-> TRUE]

EdgeRect ==
    << Field("left", "u16"), Field("top", "u16"),
       Field("right", "u16"), Field("bottom", "u16") >>

\* dpi_x without its #[decode_ignore] #[encode_ignore]
NowSurfaceDef_dpi_on_wire ==
    << Field("size", "u16"),
       Field("flags", "SurfacePropertiesFlags"),
       Field("surface_id", "u16"),
       Field("orientation", "SurfaceOrientation"),
       Field("rect", "EdgeRect"),
       Field("dpi_x", "u16"),
       Ignored("dpi_y", "u16"),
       Ignored("pct_scale_x", "u16"),
       Ignored("pct_scale_y", "u16"),
       Ignored("native_rect", "EdgeRect") >>

NowSurfaceDef ==
    << Field("size", "u16"),
       Field("flags", "SurfacePropertiesFlags"),
       Field("surface_id", "u16"),
       Field("orientation", "SurfaceOrientation"),
       Field("rect", "EdgeRect"),
       Ignored("dpi_x", "u16"),
       Ignored("dpi_y", "u16"),
       Ignored("pct_scale_x", "u16"),
       Ignored("pct_scale_y", "u16"),
       Ignored("native_rect", "EdgeRect") >>

NowSurfaceMap ==
    << Field("size", "u16"),
       Field("flags", "u16"),
       Field("surface_id", "u16"),
       Field("output_id", "u16"),
       Field("output_rect", "EdgeRect") >>

NowSurfaceListReqMsg ==
    << Field("subtype", "SurfaceMessageType"),
       Field("flags", "u8"),
       Field("sequence_id", "u16"),
       Field("desktop_width", "u16"),
       Field("desktop_height", "u16"),
       Field("surfaces", "Vec8<NowSurfaceDef>") >>

NowSurfaceListRspMsg ==
    << Field("subtype", "SurfaceMessageType"),
       Field("flags", "SurfaceResponseFlags"),
       Field("sequence_id", "u16") >>

NowSurfaceMapReqMsg ==
    << Field("subtype", "SurfaceMessageType"),
       Field("flags", "u8"),
       Field("sequence_id", "u16"),
       Field("desktop_width", "u16"),
       Field("desktop_height", "u16"),
       Field("maps", "Vec8<NowSurfaceMap>") >>

NowSurfaceMapRspMsg ==
    << Field("subtype", "SurfaceMessageType"),
       Field("flags", "SurfaceResponseFlags"),
       Field("sequence_id", "u16") >>

NowSurfaceSelectReqMsg ==
    << Field("subtype", "SurfaceMessageType"),
       Field("flags", "u8"),
       Field("sequence_id", "u16"),
       Field("reserved", "u16"),
       Field("surface_id", "u16") >>

NowSurfaceSelectRspMsg ==
    << Field("subtype", "SurfaceMessageType"),
       Field("flags", "SurfaceResponseFlags"),
       Field("sequence_id", "u16") >>

FieldsOf(ty) ==
    CASE ty = "EdgeRect" -> EdgeRect
      [] ty = "NowSurfaceDef" -> NowSurfaceDef
      [] ty = "NowSurfaceMap" -> NowSurfaceMap
      [] ty = "NowSurfaceListReqMsg" -> NowSurfaceListReqMsg
      [] ty = "NowSurfaceListRspMsg" -> NowSurfaceListRspMsg
      [] ty = "NowSurfaceMapReqMsg" -> NowSurfaceMapReqMsg
      [] ty = "NowSurfaceMapRspMsg" -> NowSurfaceMapRspMsg
      [] ty = "NowSurfaceSelectReqMsg" -> NowSurfaceSelectReqMsg
      [] ty = "NowSurfaceSelectRspMsg" -> NowSurfaceSelectRspMsg

IsFlags(ty) == ty \in {"SurfaceResponseFlags", "SurfacePropertiesFlags"}
IsVec8(ty) == ty \in {"Vec8<NowSurfaceDef>", "Vec8<NowSurfaceMap>"}
ElemOf(ty) == IF ty = "Vec8<NowSurfaceDef>" THEN "NowSurfaceDef" ELSE "NowSurfaceMap"

\* the integer type behind a flags struct or a #[repr] enum
Repr(ty) ==
    IF ty \in {"SurfaceResponseFlags", "SurfaceMessageType"} THEN "u8" ELSE "u16"

EdgeRect_default == [left |-> 0, top |-> 0, right |-> 0, bottom |-> 0]
DefaultOf(ty) == IF ty = "EdgeRect" THEN EdgeRect_default ELSE 0

\* position of the field called name in a declaration
FieldIndex(fields, name) == CHOOSE i \in 1..Len(fields) : fields[i].name = name

(* ------------------------------------------------------------------ *)
(* Primitive codec                                                     *)
(* ------------------------------------------------------------------ *)
u8_encode(v) == <<v>>
\* the other byte order
u16_encode_msb_first(v) == <<v \div 256, v % 256>>

\* 16-bit integers go least significant byte first: 1024 is 0x00, 0x04
u16_encode(v) == <<v % 256, v \div 256>>

u8_decode(buf, pos) ==
    IF pos + 1 <= Len(buf)
    THEN Ok(buf[pos + 1], pos + 1)
    ELSE Err(pos, <<ProtoError("Decoding", "u8", "failed to fill whole buffer", NoValue)>>)

u16_decode(buf, pos) ==
    IF pos + 2 <= Len(buf)
    THEN Ok(buf[pos + 1] + 256 * buf[pos + 2], pos + 2)
    ELSE Err(Len(buf), <<ProtoError("Decoding", "u16", "failed to fill whole buffer", NoValue)>>)

(* ------------------------------------------------------------------ *)
(* Derived Encode                                                      *)
(* ------------------------------------------------------------------ *)
RECURSIVE EncodeType(_, _), EncodeFields(_, _, _, _), EncodeElems(_, _, _, _)

\* the encodings of the fields from the i-th on, concatenated
EncodeFields(ty, fields, i, val) ==
    IF i > Len(fields) THEN Written(<<>>)
    ELSE IF fields[i].ignore THEN EncodeFields(ty, fields, i + 1, val)
    ELSE LET head == chain("Encoding", ty, fields[i].name,
                           EncodeType(fields[i].ty, val[fields[i].name]))
         IN IF ~head.ok THEN head
            ELSE LET rest == EncodeFields(ty, fields, i + 1, val)
                 IN [rest EXCEPT !.bytes = head.bytes \o rest.bytes]

\* the encodings of elems[lo..hi] in order, stopping at the first failure
\* (evaluated by halves: the elements are still written left to right)
EncodeElems(ty, elems, lo, hi) ==
    IF lo > hi THEN Written(<<>>)
    ELSE IF lo = hi THEN EncodeType(ty, elems[lo])
    ELSE LET mid == (lo + hi) \div 2
             head == EncodeElems(ty, elems, lo, mid)
         IN IF ~head.ok THEN head
            ELSE LET rest == EncodeElems(ty, elems, mid + 1, hi)
                 IN [rest EXCEPT !.bytes = head.bytes \o rest.bytes]

\* the length cast to u8 without a check
Vec8_encode_wrapping(ty, elems) ==
    LET body == EncodeElems(ElemOf(ty), elems, 1, Len(elems))
    IN [body EXCEPT !.bytes = u8_encode(Len(elems) % (U8Max + 1)) \o body.bytes]

\* Vec8: one count byte, then the elements; more than U8Max elements is an
\* encoding error and nothing is written
Vec8_encode(ty, elems) ==
    IF Len(elems) > U8Max
    THEN WriteErr(<<>>, <<ProtoError("Encoding", "Vec8", "too many elements", NoValue)>>)
    ELSE LET body == EncodeElems(ElemOf(ty), elems, 1, Len(elems))
         IN [body EXCEPT !.bytes = u8_encode(Len(elems)) \o body.bytes]

EncodeType(ty, val) ==
    CASE ty = "u8" -> Written(u8_encode(val))
      [] ty = "u16" -> Written(u16_encode(val))
      [] IsFlags(ty) -> EncodeType(Repr(ty), val.value)
      [] IsEnum(ty) -> EncodeType(Repr(ty), EnumTable(ty)[val])
      [] IsVec8(ty) -> Vec8_encode(ty, val)
      [] OTHER -> EncodeFields(ty, FieldsOf(ty), 1, val)

RECURSIVE EncodedLen(_, _), FieldsLen(_, _, _), ElemsLen(_, _, _, _)

FieldsLen(fields, i, val) ==
    IF i > Len(fields) THEN 0
    ELSE (IF fields[i].ignore THEN 0 ELSE EncodedLen(fields[i].ty, val[fields[i].name]))
         + FieldsLen(fields, i + 1, val)

ElemsLen(ty, elems, lo, hi) ==
    IF lo > hi THEN 0
    ELSE IF lo = hi THEN EncodedLen(ty, elems[lo])
    ELSE ElemsLen(ty, elems, lo, (lo + hi) \div 2)
         + ElemsLen(ty, elems, (lo + hi) \div 2 + 1, hi)

\* Encode::encoded_len, computed without writing
EncodedLen(ty, val) ==
    CASE ty = "u8" -> 1
      [] ty = "u16" -> 2
      [] IsFlags(ty) \/ IsEnum(ty) -> EncodedLen(Repr(ty), 0)
      [] IsVec8(ty) -> 1 + ElemsLen(ElemOf(ty), val, 1, Len(val))
      [] OTHER -> FieldsLen(FieldsOf(ty), 1, val)

(* ------------------------------------------------------------------ *)
(* Derived Decode                                                      *)
(* ------------------------------------------------------------------ *)
RECURSIVE DecodeType(_, _, _), DecodeFields(_, _, _, _, _, _), DecodeElems(_, _, _, _)

\* the values of the fields from the i-th on, read from a shared cursor;
\* an ignored field is not read and takes its default
DecodeFields(ty, fields, i, buf, pos, acc) ==
    IF i > Len(fields) THEN Ok(acc, pos)
    ELSE IF fields[i].ignore
         THEN DecodeFields(ty, fields, i + 1, buf, pos,
                           Append(acc, DefaultOf(fields[i].ty)))
    ELSE LET head == chain("Decoding", ty, fields[i].name,
                           DecodeType(fields[i].ty, buf, pos))
         IN IF ~head.ok THEN head
            ELSE DecodeFields(ty, fields, i + 1, buf, head.pos, Append(acc, head.val))

DecodeStruct(ty, buf, pos) ==
    LET fields == FieldsOf(ty)
        r == DecodeFields(ty, fields, 1, buf, pos, <<>>)
    IN IF ~r.ok THEN r
       ELSE Ok([n \in {fields[i].name : i \in 1..Len(fields)} |->
                    r.val[FieldIndex(fields, n)]], r.pos)

\* exactly n more elements; the first failure is the collection's failure
\* (evaluated by halves: the elements are still read left to right)
DecodeElems(ty, n, buf, pos) ==
    IF n = 0 THEN Ok(<<>>, pos)
    ELSE IF n = 1
    THEN LET one == DecodeType(ty, buf, pos)
         IN IF ~one.ok THEN one ELSE Ok(<<one.val>>, one.pos)
    ELSE LET head == DecodeElems(ty, n \div 2, buf, pos)
         IN IF ~head.ok THEN head
            ELSE LET rest == DecodeElems(ty, n - n \div 2, buf, head.pos)
                 IN IF ~rest.ok THEN rest ELSE Ok(head.val \o rest.val, rest.pos)

Vec8_decode(ty, buf, pos) ==
    LET count == u8_decode(buf, pos)
    IN IF ~count.ok THEN count
       ELSE DecodeElems(ElemOf(ty), count.val, buf, count.pos)

Enum_decode(ty, buf, pos) ==
    LET raw == DecodeType(Repr(ty), buf, pos)
    IN IF ~raw.ok THEN raw
       ELSE IF FromPrimitive(ty, raw.val) = None
            THEN Err(raw.pos, <<ProtoError("InvalidDiscriminant", ty, "", raw.val)>>)
            ELSE Ok(FromPrimitive(ty, raw.val), raw.pos)

\* a flags struct keeps the raw value: unknown bits are neither masked nor rejected
Flags_decode(ty, buf, pos) ==
    LET raw == DecodeType(Repr(ty), buf, pos)
    IN IF ~raw.ok THEN raw ELSE Ok([value |-> raw.val], raw.pos)

DecodeType(ty, buf, pos) ==
    CASE ty = "u8" -> u8_decode(buf, pos)
      [] ty = "u16" -> u16_decode(buf, pos)
      [] IsFlags(ty) -> Flags_decode(ty, buf, pos)
      [] IsEnum(ty) -> Enum_decode(ty, buf, pos)
      [] IsVec8(ty) -> Vec8_decode(ty, buf, pos)
      [] OTHER -> DecodeStruct(ty, buf, pos)

(* ------------------------------------------------------------------ *)
(* Constructors and setters                                            *)
(* ------------------------------------------------------------------ *)
NowSurfaceDef_new(surface_id, rect) ==
    [size |-> NowSurfaceDef_REQUIRED_SIZE,
     flags |-> [value |-> SurfacePropertiesFlags_default],
     surface_id |-> surface_id,
     orientation |-> "Landscape",
     rect |-> rect,
     dpi_x |-> 0, dpi_y |-> 0, pct_scale_x |-> 0, pct_scale_y |-> 0,
     native_rect |-> EdgeRect_default]

NowSurfaceDef_flags(self, flags) == [self EXCEPT !.flags = [value |-> flags]]

NowSurfaceDef_orientation(self, orientation) ==
    [self EXCEPT !.orientation = orientation]

\* mem::size_of::<NowSurfaceMap>(): four u16 and an EdgeRect of four u16
NowSurfaceMap_REQUIRED_SIZE == 2 + 2 + 2 + 2 + 8

NowSurfaceMap_new(surface_id, output_id, output_rect) ==
    [size |-> NowSurfaceMap_REQUIRED_SIZE,
     flags |-> 0,
     surface_id |-> surface_id,
     output_id |-> output_id,
     output_rect |-> output_rect]

NowSurfaceListReqMsg_new_with_surfaces(sequence_id, desktop_width, desktop_height, surfs) ==
    [subtype |-> "ListReq",
     flags |-> 0,
     sequence_id |-> sequence_id,
     desktop_width |-> desktop_width,
     desktop_height |-> desktop_height,
     surfaces |-> surfs]

NowSurfaceListReqMsg_new(sequence_id, desktop_width, desktop_height) ==
    NowSurfaceListReqMsg_new_with_surfaces(sequence_id, desktop_width, desktop_height, <<>>)

NowSurfaceListRspMsg_new(flags, sequence_id) ==
    [subtype |-> "ListRsp", flags |-> [value |-> flags], sequence_id |-> sequence_id]

NowSurfaceMapReqMsg_new_with_mappings(sequence_id, desktop_width, desktop_height, mappings) ==
    [subtype |-> "ListReq",
     flags |-> 0,
     sequence_id |-> sequence_id,
     desktop_width |-> desktop_width,
     desktop_height |-> desktop_height,
     maps |-> mappings]

NowSurfaceMapReqMsg_new(sequence_id, desktop_width, desktop_height) ==
    NowSurfaceMapReqMsg_new_with_mappings(sequence_id, desktop_width, desktop_height, <<>>)

NowSurfaceMapRspMsg_new(flags, sequence_id) ==
    [subtype |-> "MapRsp", flags |-> [value |-> flags], sequence_id |-> sequence_id]

NowSurfaceSelectReqMsg_new(flags, sequence_id, surface_id) ==
    [subtype |-> "SelectReq",
     flags |-> flags,
     sequence_id |-> sequence_id,
     reserved |-> 0,
     surface_id |-> surface_id]

NowSurfaceSelectRspMsg_new(flags, sequence_id) ==
    [subtype |-> "SelectRsp", flags |-> [value |-> flags], sequence_id |-> sequence_id]

\* SUBTYPE associated constants
SUBTYPE ==
    [ListReq |-> "ListReq", ListRsp |-> "ListRsp", MapReq |-> "MapReq",
     MapRsp |-> "MapRsp", SelectReq |-> "SelectReq", SelectRsp |-> "SelectRsp"]

(* ------------------------------------------------------------------ *)
(* The NowSurfaceMsg envelope                                          *)
(* ------------------------------------------------------------------ *)
Variants == {"ListReq", "ListRsp", "MapReq", "MapRsp", "SelectReq", "SelectRsp"}

\* the struct wrapped by each variant of the enum
NowSurfaceMsg ==
    [ListReq |-> "NowSurfaceListReqMsg", ListRsp |-> "NowSurfaceListRspMsg",
     MapReq |-> "NowSurfaceMapReqMsg", MapRsp |-> "NowSurfaceMapRspMsg",
     SelectReq |-> "NowSurfaceSelectReqMsg", SelectRsp |-> "NowSurfaceSelectRspMsg"]

\* impl From<variant struct> for NowSurfaceMsg
NowSurfaceMsg_from(variant, m) == [variant |-> variant, msg |-> m]

\* the derived codec of a variant struct, used on its own
Variant_encode_into(variant, m) == EncodeType(NowSurfaceMsg[variant], m)
Variant_encoded_len(variant, m) == EncodedLen(NowSurfaceMsg[variant], m)
Variant_decode_from(variant, buf, pos) == DecodeType(NowSurfaceMsg[variant], buf, pos)

NowSurfaceMsg_encoded_len(self) ==
    CASE self.variant = "ListReq" -> Variant_encoded_len("ListReq", self.msg)
      [] self.variant = "ListRsp" -> Variant_encoded_len("ListRsp", self.msg)
      [] self.variant = "MapReq" -> Variant_encoded_len("MapReq", self.msg)
      [] self.variant = "MapRsp" -> Variant_encoded_len("MapRsp", self.msg)
      [] self.variant = "SelectReq" -> Variant_encoded_len("SelectReq", self.msg)
      [] self.variant = "SelectRsp" -> Variant_encoded_len("SelectRsp", self.msg)

\* the envelope writing a tag byte of its own before the variant
NowSurfaceMsg_encode_into_tagged(self) ==
    LET r == chain("Encoding", "NowSurfaceMsg", "couldn't encode message",
                   Variant_encode_into(self.variant, self.msg))
    IN [r EXCEPT !.bytes = <<SurfaceMessageType[self.variant]>> \o r.bytes]

NowSurfaceMsg_encode_into(self) ==
    CASE self.variant = "ListReq" ->
            chain("Encoding", "NowSurfaceMsg", "couldn't encode list request message",
                  Variant_encode_into("ListReq", self.msg))
      [] self.variant = "ListRsp" ->
            chain("Encoding", "NowSurfaceMsg", "couldn't encode list response message",
                  Variant_encode_into("ListRsp", self.msg))
      [] self.variant = "MapReq" ->
            chain("Encoding", "NowSurfaceMsg", "couldn't encode map request message",
                  Variant_encode_into("MapReq", self.msg))
      [] self.variant = "MapRsp" ->
            chain("Encoding", "NowSurfaceMsg", "couldn't encode map response message",
                  Variant_encode_into("MapRsp", self.msg))
      [] self.variant = "SelectReq" ->
            chain("Encoding", "NowSurfaceMsg", "couldn't encode select request message",
                  Variant_encode_into("SelectReq", self.msg))
      [] self.variant = "SelectRsp" ->
            chain("Encoding", "NowSurfaceMsg", "couldn't encode select response message",
                  Variant_encode_into("SelectRsp", self.msg))

\* Result::map(Self::Variant)
MapInto(variant, res) ==
    IF res.ok THEN [res EXCEPT !.val = NowSurfaceMsg_from(variant, res.val)] ELSE res

\* the outcome of the envelope's decode_from: the Result, the variant decoder
\* it invoked (None when it invoked none) and the cursor position handed to it
Dispatch(res, variant, start) == [res |-> res, invoked |-> variant, start |-> start]

\* cursor position after the discriminant byte was read and found valid:
\* cursor.seek(SeekFrom::Current(-1))
Rewind(pos) == pos - 1

\* one arm of the match: the variant's decode_from, .map(Self::Variant),
\* .chain(Decoding(NowSurfaceMsg)).or_desc(desc)
Arm(variant, desc, buf, start) ==
    Dispatch(chain("Decoding", "NowSurfaceMsg", desc,
                   MapInto(variant, Variant_decode_from(variant, buf, start))),
             variant, start)

\* the list request arm calling the list response decoder
MatchSubtype_wrong_arm(subtype, buf, start) ==
    CASE subtype = "ListReq" -> Arm("ListRsp", "invalid list request message", buf, start)
      [] subtype = "ListRsp" -> Arm("ListRsp", "invalid list response message", buf, start)
      [] subtype = "MapReq" -> Arm("MapReq", "invalid map request message", buf, start)
      [] subtype = "MapRsp" -> Arm("MapRsp", "invalid map response message", buf, start)
      [] subtype = "SelectReq" -> Arm("SelectReq", "invalid select request message", buf, start)
      [] subtype = "SelectRsp" -> Arm("SelectRsp", "invalid select response message", buf, start)

MatchSubtype(subtype, buf, start) ==
    CASE subtype = "ListReq" -> Arm("ListReq", "invalid list request message", buf, start)
      [] subtype = "ListRsp" -> Arm("ListRsp", "invalid list response message", buf, start)
      [] subtype = "MapReq" -> Arm("MapReq", "invalid map request message", buf, start)
      [] subtype = "MapRsp" -> Arm("MapRsp", "invalid map response message", buf, start)
      [] subtype = "SelectReq" -> Arm("SelectReq", "invalid select request message", buf, start)
      [] subtype = "SelectRsp" -> Arm("SelectRsp", "invalid select response message", buf, start)

NowSurfaceMsg_decode_from(buf, pos) ==
    LET byte == u8_decode(buf, pos)
        subtype == FromPrimitive("SurfaceMessageType", byte.val)
    IN IF ~byte.ok THEN Dispatch(byte, None, pos)
       ELSE IF subtype = None
       THEN Dispatch(Err(byte.pos,
                         <<ProtoError("Decoding", "NowSurfaceMsg", "invalid subtype", NoValue)>>),
                     None, byte.pos)
       ELSE MatchSubtype(subtype, buf, Rewind(byte.pos))

\* tests::SURFACE_LIST_REQ_MSG
SURFACE_LIST_REQ_MSG ==
    << 1,          \* subtype
       0,          \* flags
       0, 0,       \* sequence id
       0, 4,       \* desktop width
       0, 3,       \* desktop height
       1,          \* surface count
       16, 0,      \* size
       9, 0,       \* flags
       0, 0,       \* surface id
       0, 0,       \* orientation
       0, 0, 0, 0, 0, 4, 0, 3 >>   \* rect

(* ------------------------------------------------------------------ *)
(* Inputs                                                              *)
(* ------------------------------------------------------------------ *)
SequenceIds == {0, 513}
DesktopWidths == {1024}
DesktopHeights == {768}
SurfaceIds == {0, 7}
OutputIds == {5, 90}
Rects == {[left |-> 0, top |-> 0, right |-> 1024, bottom |-> 768]}
SurfaceFlagInputs == {BitOr(MIRRORED, DISABLED)}
OrientationInputs == {"PortraitFlipped"}
ResponseFlagInputs == {0, FAILURE}
SelectFlagInputs == {0, 255}
LongLens == U8Max .. (U8Max + MaxOver)
\* buffers the transport hands over that no encoder of this module produced
RawBuffers == {SURFACE_LIST_REQ_MSG, <<>>}
\* bytes already consumed from the buffer when decode_from is called
Prefixes == {<<>>, <<255>>}
CorruptBytes == {0, 2, 7}

(* ------------------------------------------------------------------ *)
(* State                                                               *)
(* ------------------------------------------------------------------ *)
VARIABLES
    pc,         \* "idle", "built", "encoded", "received", "decoded", "vdecoded", "reencoded"
    def,        \* the NowSurfaceDef being built, NoVal when there is none
    defFresh,   \* TRUE while def is as NowSurfaceDef::new returned it
    surfaces,   \* Vec<NowSurfaceDef> collected for new_with_surfaces
    maps,       \* Vec<NowSurfaceMap> collected for new_with_mappings
    msg,        \* the NowSurfaceMsg built by the caller
    encRes,     \* result of encoding msg
    wire,       \* the buffer under the cursor
    origin,     \* "encoded": wire holds an encoding of msg; "raw" otherwise
    tampered,   \* the transport altered wire
    entry,      \* cursor position when the decoder was called
    cursor,     \* cursor position
    decRes,     \* result of the last decode
    invoked,    \* variant decoder the last decode ran, None if none
    startedAt,  \* cursor position handed to that variant decoder
    reenc       \* result of encoding the decoded message again

vars == <<pc, def, defFresh, surfaces, maps, msg, encRes, wire, origin, tampered,
          entry, cursor, decRes, invoked, startedAt, reenc>>

NoMsg == [variant |-> None]
NoRes == [ok |-> FALSE, none |-> TRUE]

builder == <<def, defFresh, surfaces, maps>>
channel == <<wire, origin, tampered, entry, cursor>>
decoded == <<decRes, invoked, startedAt, reenc>>

Init ==
    /\ pc = "idle"
    /\ def = NoVal
    /\ defFresh = FALSE
    /\ surfaces = <<>>
    /\ maps = <<>>
    /\ msg = NoMsg
    /\ encRes = NoRes
    /\ wire = <<>>
    /\ origin = "raw"
    /\ tampered = FALSE
    /\ entry = 0
    /\ cursor = 0
    /\ decRes = NoRes
    /\ invoked = None
    /\ startedAt = 0
    /\ reenc = NoRes

(* ------------------------------------------------------------------ *)
(* Building a message                                                  *)
(* ------------------------------------------------------------------ *)
NewSurfaceDef ==
    /\ pc = "idle" /\ def = NoVal
    /\ Len(surfaces) < MaxSmallLen
    /\ \E id \in SurfaceIds, rect \in Rects : def' = NowSurfaceDef_new(id, rect)
    /\ defFresh' = TRUE
    /\ UNCHANGED <<pc, surfaces, maps, msg, encRes, channel, decoded>>

SetFlags ==
    /\ pc = "idle" /\ def # NoVal
    /\ \E f \in SurfaceFlagInputs :
          /\ def.flags.value # f
          /\ def' = NowSurfaceDef_flags(def, f)
    /\ defFresh' = FALSE
    /\ UNCHANGED <<pc, surfaces, maps, msg, encRes, channel, decoded>>

SetOrientation ==
    /\ pc = "idle" /\ def # NoVal
    /\ \E o \in OrientationInputs :
          /\ def.orientation # o
          /\ def' = NowSurfaceDef_orientation(def, o)
    /\ defFresh' = FALSE
    /\ UNCHANGED <<pc, surfaces, maps, msg, encRes, channel, decoded>>

PushSurface ==
    /\ pc = "idle" /\ def # NoVal
    /\ surfaces' = Append(surfaces, def)
    /\ def' = NoVal
    /\ defFresh' = FALSE
    /\ UNCHANGED <<pc, maps, msg, encRes, channel, decoded>>

\* vec![def; n]
FillSurfaces ==
    /\ pc = "idle" /\ def # NoVal /\ defFresh /\ surfaces = <<>>
    /\ \E n \in LongLens : surfaces' = [i \in 1..n |-> def]
    /\ def' = NoVal
    /\ defFresh' = FALSE
    /\ UNCHANGED <<pc, maps, msg, encRes, channel, decoded>>

PushMap ==
    /\ pc = "idle" /\ def = NoVal /\ surfaces = <<>>
    /\ Len(maps) < MaxSmallLen
    /\ \E sid \in SurfaceIds, oid \in OutputIds, rect \in Rects :
          maps' = Append(maps, NowSurfaceMap_new(sid, oid, rect))
    /\ UNCHANGED <<pc, def, defFresh, surfaces, msg, encRes, channel, decoded>>

FillMaps ==
    /\ pc = "idle" /\ def = NoVal /\ surfaces = <<>> /\ maps = <<>>
    /\ \E n \in LongLens, sid \in SurfaceIds, oid \in OutputIds, rect \in Rects :
          maps' = [i \in 1..n |-> NowSurfaceMap_new(sid, oid, rect)]
    /\ UNCHANGED <<pc, def, defFresh, surfaces, msg, encRes, channel, decoded>>

\* the caller wraps the variant struct into the envelope
Built(variant, m) ==
    /\ msg' = NowSurfaceMsg_from(variant, m)
    /\ pc' = "built"
    /\ def' = NoVal
    /\ defFresh' = FALSE
    /\ surfaces' = <<>>
    /\ maps' = <<>>
    /\ UNCHANGED <<encRes, channel, decoded>>

Idle == pc = "idle" /\ def = NoVal

NewListReq ==
    /\ Idle /\ surfaces = <<>> /\ maps = <<>>
    /\ \E s \in SequenceIds, w \in DesktopWidths, h \in DesktopHeights :
          Built("ListReq", NowSurfaceListReqMsg_new(s, w, h))

NewListReqWithSurfaces ==
    /\ Idle /\ maps = <<>>
    /\ \E s \in SequenceIds, w \in DesktopWidths, h \in DesktopHeights :
          Built("ListReq", NowSurfaceListReqMsg_new_with_surfaces(s, w, h, surfaces))

NewListRsp ==
    /\ Idle /\ surfaces = <<>> /\ maps = <<>>
    /\ \E f \in ResponseFlagInputs, s \in SequenceIds :
          Built("ListRsp", NowSurfaceListRspMsg_new(f, s))

NewMapReq ==
    /\ Idle /\ surfaces = <<>> /\ maps = <<>>
    /\ \E s \in SequenceIds, w \in DesktopWidths, h \in DesktopHeights :
          Built("MapReq", NowSurfaceMapReqMsg_new(s, w, h))

NewMapReqWithMappings ==
    /\ Idle /\ surfaces = <<>>
    /\ \E s \in SequenceIds, w \in DesktopWidths, h \in DesktopHeights :
          Built("MapReq", NowSurfaceMapReqMsg_new_with_mappings(s, w, h, maps))

NewMapRsp ==
    /\ Idle /\ surfaces = <<>> /\ maps = <<>>
    /\ \E f \in ResponseFlagInputs, s \in SequenceIds :
          Built("MapRsp", NowSurfaceMapRspMsg_new(f, s))

NewSelectReq ==
    /\ Idle /\ surfaces = <<>> /\ maps = <<>>
    /\ \E f \in SelectFlagInputs, s \in SequenceIds, id \in SurfaceIds :
          Built("SelectReq", NowSurfaceSelectReqMsg_new(f, s, id))

NewSelectRsp ==
    /\ Idle /\ surfaces = <<>> /\ maps = <<>>
    /\ \E f \in ResponseFlagInputs, s \in SequenceIds :
          Built("SelectRsp", NowSurfaceSelectRspMsg_new(f, s))

(* ------------------------------------------------------------------ *)
(* Encoding, the transport, decoding                                   *)
(* ------------------------------------------------------------------ *)
Encode ==
    /\ pc = "built"
    /\ encRes' = NowSurfaceMsg_encode_into(msg)
    /\ pc' = "encoded"
    /\ UNCHANGED <<builder, msg, channel, decoded>>

\* the encoded bytes reach a decoder, which reads them from the start
Send ==
    /\ pc = "encoded" /\ encRes.ok
    /\ wire' = encRes.bytes
    /\ entry' = 0
    /\ cursor' = 0
    /\ origin' = "encoded"
    /\ tampered' = FALSE
    /\ pc' = "received"
    /\ UNCHANGED <<builder, msg, encRes, decoded>>

ReceiveRaw ==
    /\ Idle /\ surfaces = <<>> /\ maps = <<>>
    /\ \E pre \in Prefixes, raw \in RawBuffers :
          /\ wire' = pre \o raw
          /\ entry' = Len(pre)
          /\ cursor' = Len(pre)
    /\ origin' = "raw"
    /\ tampered' = FALSE
    /\ pc' = "received"
    /\ UNCHANGED <<builder, msg, encRes, decoded>>

Truncate ==
    /\ pc = "received" /\ ~tampered
    /\ Len(wire) - entry <= MaxTamperLen
    /\ \E k \in 1..MaxTrunc :
          /\ k <= Len(wire) - entry
          /\ wire' = SubSeq(wire, 1, Len(wire) - k)
    /\ tampered' = TRUE
    /\ UNCHANGED <<pc, builder, msg, encRes, origin, entry, cursor, decoded>>

Corrupt ==
    /\ pc = "received" /\ ~tampered
    /\ Len(wire) - entry <= MaxTamperLen
    /\ \E i \in 1..MaxCorruptIdx, b \in CorruptBytes :
          /\ entry + i <= Len(wire)
          /\ wire[entry + i] # b
          /\ wire' = [wire EXCEPT ![entry + i] = b]
    /\ tampered' = TRUE
    /\ UNCHANGED <<pc, builder, msg, encRes, origin, entry, cursor, decoded>>

\* NowSurfaceMsg::decode_from(cursor)
Decode ==
    /\ pc = "received"
    /\ LET d == NowSurfaceMsg_decode_from(wire, cursor)
       IN /\ decRes' = d.res
          /\ cursor' = d.res.pos
          /\ invoked' = d.invoked
          /\ startedAt' = d.start
    /\ pc' = "decoded"
    /\ UNCHANGED <<builder, msg, encRes, wire, origin, tampered, entry, reenc>>

\* a variant's own decode_from(cursor), without the envelope
DecodeVariant ==
    /\ pc = "received" /\ ~tampered
    /\ \E v \in Variants :
          LET r == Variant_decode_from(v, wire, cursor)
          IN /\ decRes' = r
             /\ cursor' = r.pos
             /\ invoked' = v
             /\ startedAt' = cursor
    /\ pc' = "vdecoded"
    /\ UNCHANGED <<builder, msg, encRes, wire, origin, tampered, entry, reenc>>

\* the decoded message is encoded again
ReEncode ==
    /\ pc = "decoded" /\ decRes.ok
    /\ reenc' = NowSurfaceMsg_encode_into(decRes.val)
    /\ pc' = "reencoded"
    /\ UNCHANGED <<builder, msg, encRes, channel, decRes, invoked, startedAt>>

\* the call is over; the codec keeps nothing between calls
Reset ==
    /\ pc \in {"encoded", "decoded", "vdecoded", "reencoded"}
    /\ pc' = "idle"
    /\ def' = NoVal
    /\ defFresh' = FALSE
    /\ surfaces' = <<>>
    /\ maps' = <<>>
    /\ msg' = NoMsg
    /\ encRes' = NoRes
    /\ wire' = <<>>
    /\ origin' = "raw"
    /\ tampered' = FALSE
    /\ entry' = 0
    /\ cursor' = 0
    /\ decRes' = NoRes
    /\ invoked' = None
    /\ startedAt' = 0
    /\ reenc' = NoRes

Next ==
    \/ NewSurfaceDef \/ SetFlags \/ SetOrientation \/ PushSurface \/ FillSurfaces
    \/ PushMap \/ FillMaps
    \/ NewListReq \/ NewListReqWithSurfaces \/ NewListRsp
    \/ NewMapReq \/ NewMapReqWithMappings \/ NewMapRsp
    \/ NewSelectReq \/ NewSelectRsp
    \/ Encode \/ Send \/ ReceiveRaw \/ Truncate \/ Corrupt
    \/ Decode \/ DecodeVariant \/ ReEncode \/ Reset

Spec == Init /\ [][Next]_vars

(* ------------------------------------------------------------------ *)
(* Properties                                                          *)
(* ------------------------------------------------------------------ *)
\* the i-th byte after the position the decoder was entered at
In(i) == wire[entry + i]
Avail == Len(wire) - entry
\* the six reserved discriminant codes, 0x01 .. 0x06
ValidCodes == 1..6

\* the canonical codes: ListReq=0x01 .. SelectRsp=0x06
CanonicalCode ==
    [ListReq |-> 1, ListRsp |-> 2, MapReq |-> 3, MapRsp |-> 4,
     SelectReq |-> 5, SelectRsp |-> 6]

\* C1: round trip through the envelope: a message built by a public
\* constructor, encoded and decoded by NowSurfaceMsg, comes back as the same
\* variant with every field equal.
C1_RoundTrip ==
    (pc = "decoded" /\ origin = "encoded" /\ ~tampered)
        => (decRes.ok /\ decRes.val.variant = msg.variant /\ decRes.val.msg = msg.msg)

\* C2: discriminant fidelity: every constructed instance carries its variant's
\* SUBTYPE in the subtype field, so its encoding starts with that variant's code.
C2_DiscriminantFidelity ==
    (msg.variant # None)
        => /\ msg.msg.subtype = SUBTYPE[msg.variant]
           /\ (pc = "encoded" /\ encRes.ok)
                 => encRes.bytes[1] = CanonicalCode[msg.variant]

BadDiscriminant == pc = "decoded" /\ Avail > 0 /\ In(1) \notin ValidCodes

VectorUnderCursor == SubSeq(wire, entry + 1, Len(wire)) = SURFACE_LIST_REQ_MSG

TestSurface == NowSurfaceDef_new(0, [left |-> 0, top |-> 0, right |-> 1024, bottom |-> 768])

\* C4: decode then encode is byte exact: whenever NowSurfaceMsg accepts a
\* buffer, encoding the decoded value gives back exactly the bytes consumed;
\* the 25-byte vector decodes to the ListReq of the test, and the ListReq of
\* the test encodes to the vector.
C4_ByteExact ==
    /\ (pc = "reencoded")
          => (reenc.ok /\ reenc.bytes = SubSeq(wire, entry + 1, cursor))
    /\ (pc \in {"decoded", "reencoded"} /\ VectorUnderCursor)
          => /\ decRes.ok
             /\ cursor = Len(wire)
             /\ decRes.val.variant = "ListReq"
             /\ decRes.val.msg.subtype = "ListReq"
             /\ decRes.val.msg.sequence_id = 0
             /\ decRes.val.msg.desktop_width = 1024
             /\ decRes.val.msg.desktop_height = 768
             /\ Len(decRes.val.msg.surfaces) = 1
             /\ decRes.val.msg.surfaces[1].size = 16
             /\ decRes.val.msg.surfaces[1].flags = [value |-> SurfacePropertiesFlags_default]
             /\ decRes.val.msg.surfaces[1].surface_id = 0
             /\ decRes.val.msg.surfaces[1].orientation = "Landscape"
             /\ decRes.val.msg.surfaces[1].rect =
                    [left |-> 0, top |-> 0, right |-> 1024, bottom |-> 768]
    /\ (pc = "encoded" /\ msg.variant = "ListReq"
          /\ msg.msg = NowSurfaceListReqMsg_new_with_surfaces(0, 1024, 768, <<TestSurface>>))
          => (encRes.ok /\ encRes.bytes = SURFACE_LIST_REQ_MSG)

C4_Witness ==
    /\ pc = "reencoded" /\ VectorUnderCursor /\ entry = 1
    /\ reenc.bytes = SURFACE_LIST_REQ_MSG

\* the two byte orders of a 16-bit value
MsbFirst(v) == <<v \div 256, v % 256>>
LsbFirst(v) == <<v % 256, v \div 256>>

U16At(W(_), bytes, off, v) == SubSeq(bytes, off, off + 1) = W(v)

RectAt(W(_), bytes, off, r) ==
    /\ U16At(W, bytes, off, r.left)
    /\ U16At(W, bytes, off + 2, r.top)
    /\ U16At(W, bytes, off + 4, r.right)
    /\ U16At(W, bytes, off + 6, r.bottom)

\* every 16-bit field of message m sits in bytes at its offset, written by W
FieldsWrittenBy(W(_), bytes, m) ==
    /\ U16At(W, bytes, 3, m.msg.sequence_id)
    /\ (m.variant \in {"ListReq", "MapReq"})
          => /\ U16At(W, bytes, 5, m.msg.desktop_width)
             /\ U16At(W, bytes, 7, m.msg.desktop_height)
    /\ (m.variant = "ListReq")
          => \A i \in 1..Len(m.msg.surfaces) :
                LET base == 9 + 16 * (i - 1)
                    d == m.msg.surfaces[i]
                IN /\ U16At(W, bytes, base + 1, d.size)
                   /\ U16At(W, bytes, base + 3, d.flags.value)
                   /\ U16At(W, bytes, base + 5, d.surface_id)
                   /\ U16At(W, bytes, base + 7, SurfaceOrientation[d.orientation])
                   /\ RectAt(W, bytes, base + 9, d.rect)
    /\ (m.variant = "MapReq")
          => \A i \in 1..Len(m.msg.maps) :
                LET base == 9 + 16 * (i - 1)
                    d == m.msg.maps[i]
                IN /\ U16At(W, bytes, base + 1, d.size)
                   /\ U16At(W, bytes, base + 3, d.flags)
                   /\ U16At(W, bytes, base + 5, d.surface_id)
                   /\ U16At(W, bytes, base + 7, d.output_id)
                   /\ RectAt(W, bytes, base + 9, d.output_rect)
    /\ (m.variant = "SelectReq")
          => /\ U16At(W, bytes, 5, m.msg.reserved)
             /\ U16At(W, bytes, 7, m.msg.surface_id)

\* C5 as first stated: every multi-byte integer field of every message is
\* written big-endian, most significant byte first.
C5_Original ==
    (pc = "encoded" /\ encRes.ok) => FieldsWrittenBy(MsbFirst, encRes.bytes, msg)

\* C5 amended: every multi-byte integer field of every message is written in
\* one order, little-endian (least significant byte first), the order under
\* which the 16-bit value 1024 is the two bytes 0x00, 0x04.
C5_LittleEndian ==
    (pc = "encoded" /\ encRes.ok)
        => /\ FieldsWrittenBy(LsbFirst, encRes.bytes, msg)
           /\ (msg.variant \in {"ListReq", "MapReq"} /\ msg.msg.desktop_width = 1024)
                 => SubSeq(encRes.bytes, 5, 6) = <<0, 4>>

C5_Witness ==
    /\ pc = "encoded" /\ encRes.ok /\ msg.variant = "ListReq"
    /\ msg.msg.sequence_id = 513 /\ msg.msg.desktop_width = 1024
    /\ Len(msg.msg.surfaces) = 2
    /\ msg.msg.surfaces[2].orientation = "PortraitFlipped"

\* the list of a ListReq or MapReq
ListOf(m) == IF m.variant = "ListReq" THEN m.msg.surfaces ELSE m.msg.maps

\* C6: collection count: a ListReq or MapReq with N <= 255 elements encodes
\* with a count byte equal to N; with 256 or more elements the encoding fails
\* with an Encoding error and no count byte is written.
C6_CountFidelity ==
    (pc = "encoded" /\ msg.variant \in {"ListReq", "MapReq"})
        => /\ (Len(ListOf(msg)) <= U8Max)
                 => (encRes.ok /\ encRes.bytes[9] = Len(ListOf(msg)))
           /\ (Len(ListOf(msg)) > U8Max)
                 => /\ ~encRes.ok
                    /\ \A i \in 1..Len(encRes.err) : encRes.err[i].kind = "Encoding"
                    /\ Len(encRes.bytes) = 8

C6_Witness ==
    /\ pc = "encoded" /\ msg.variant = "MapReq"
    /\ Len(msg.msg.maps) = U8Max + 1 /\ ~encRes.ok

\* a ListReq buffer whose count byte promises more 16-byte entries than follow
TruncatedList ==
    /\ Avail >= 9 /\ In(1) = 1
    /\ Avail - 9 < 16 * In(9)

\* C7: truncated collection: a ListReq buffer whose count byte is k but which
\* holds fewer than k complete surface entries fails with a Decoding error
\* chained through the envelope; no message with a shorter list is returned.
C7_TruncatedList ==
    (pc = "decoded" /\ TruncatedList)
        => /\ ~decRes.ok
           /\ decRes.val = NoVal
           /\ Len(decRes.err) > 1
           /\ decRes.err[1] = ProtoError("Decoding", "NowSurfaceMsg",
                                         "invalid list request message", NoValue)

C7_Witness ==
    /\ pc = "decoded" /\ TruncatedList
    /\ In(9) = 2 /\ Avail = 9 + 16 /\ ~decRes.ok

\* bit i of v
Bit(v, i) == (v \div (2 ^ i)) % 2

\* C8: flag defaulting: a NowSurfaceDef fresh from NowSurfaceDef::new has raw
\* flags 0x0009, bits SELECTED and PRIMARY set and every other bit clear,
\* size 16 and orientation Landscape.
C8_FlagDefault ==
    defFresh
        => /\ def.flags.value = 9
           /\ \A i \in 0..15 : Bit(def.flags.value, i) = (IF i \in {0, 3} THEN 1 ELSE 0)
           /\ def.size = 16
           /\ def.orientation = "Landscape"

C8_Witness == defFresh /\ pc = "idle" /\ def.surface_id = 7 /\ Len(surfaces) = 1

\* C9: non-destructive lookahead: once the discriminant byte was read, the
\* cursor is back at its entry position on every outcome: a variant decoder
\* starts at the entry position, and an invalid byte leaves the cursor there.
C9_CursorRestored ==
    (pc = "decoded" /\ Avail > 0)
        => /\ (invoked # None) => startedAt = entry
           /\ (invoked = None) => cursor = entry

\* C10: envelope transparency: the envelope writes exactly what the active
\* variant's encoder writes, its encoded_len is the variant's, and the bytes it
\* produced decode with the matching variant decoder alone.
C10_Transparent ==
    /\ (pc = "encoded")
          => /\ encRes.ok = Variant_encode_into(msg.variant, msg.msg).ok
             /\ encRes.bytes = Variant_encode_into(msg.variant, msg.msg).bytes
             /\ NowSurfaceMsg_encoded_len(msg) = Variant_encoded_len(msg.variant, msg.msg)
             /\ encRes.ok => Len(encRes.bytes) = NowSurfaceMsg_encoded_len(msg)
    /\ (pc = "vdecoded" /\ origin = "encoded" /\ invoked = msg.variant)
          => /\ decRes.ok
             /\ decRes.val = msg.msg
             /\ cursor = Len(wire)

C10_Witness ==
    /\ pc = "vdecoded" /\ origin = "encoded" /\ invoked = msg.variant
    /\ msg.variant = "MapReq" /\ Len(msg.msg.maps) = 2 /\ decRes.ok

====
